---- MODULE Spec2Model ----
(***************************************************************************)
(* Model of xscale's spectral transform (xscale/spectral/fft.py) and       *)
(* harmonic fit (xscale/signal/fitting.py).                                *)
(*                                                                         *)
(* Every public function is one action that runs the whole call; the      *)
(* call's result, or the exception that ended it together with what had    *)
(* been computed by then, is recorded in a state variable.                 *)
(*                                                                         *)
(* Numbers are exact: a real is a pair <<num, den>> with den > 0 in lowest *)
(* terms, a complex sample a pair <<re, im>> of integers.  A frequency     *)
(* coordinate is [num, den]: the values num[i] / den.  The content of a    *)
(* data axis is the sequence of the indices (samples before a transform,   *)
(* DFT bins after it) found along the axis.  Chunking is the execution     *)
(* engine's business and does not change any value, so it is left out.     *)
(***************************************************************************)
EXTENDS Integers, Sequences, FiniteSets, TLC

VARIABLES array, periods, call, spec, power, modes

vars == <<array, periods, call, spec, power, modes>>

\* Largest length of an axis of the caller's array.
MaxLen == 4
\* Largest absolute value of a sample of a signal whose values are followed.
MaxSample == 1
\* Largest period the caller puts in the list of periods.
MaxPeriod == 3

\* Names a caller may request; "z" is never a dimension of the array.
AllDims == {"x", "y", "z"}

(***************************************************************************)
(* Exact arithmetic                                                        *)
(***************************************************************************)
Abs(i) == IF i < 0 THEN -i ELSE i

RECURSIVE Gcd(_, _)
Gcd(a, b) == IF b = 0 THEN a ELSE Gcd(b, a % b)

Rat(n, d) ==
  LET g == Gcd(Abs(n), Abs(d))
      s == IF d < 0 THEN -1 ELSE 1
  IN  IF n = 0 THEN <<0, 1>> ELSE <<s * (n \div g), s * (d \div g)>>

RMul(p, q) == Rat(p[1] * q[1], p[2] * q[2])
RDiv(p, q) == Rat(p[1] * q[2], p[2] * q[1])
RAdd(p, q) == Rat(p[1] * q[2] + q[1] * p[2], p[2] * q[2])

RECURSIVE SeqSum(_)
SeqSum(s) == IF s = <<>> THEN 0 ELSE Head(s) + SeqSum(Tail(s))

RECURSIVE RSum(_)
RSum(s) == IF s = <<>> THEN <<0, 1>> ELSE RAdd(Head(s), RSum(Tail(s)))

Range(s) == {s[i] : i \in DOMAIN s}

IndexOf(s, e) == CHOOSE i \in DOMAIN s : s[i] = e

(***************************************************************************)
(* numpy.fft helpers                                                       *)
(***************************************************************************)
NoCoord == [num |-> <<>>, den |-> 1]

\* np.fft.rfftfreq(n, d): arange(0, n//2 + 1) / (n*d)
rfftfreq(n, d) ==
  [num |-> [i \in 1..(n \div 2 + 1) |-> i - 1], den |-> n * d]

\* np.fft.fftfreq(n, d): [0 .. (n-1)//2, -(n//2) .. -1] / (n*d)
fftfreq(n, d) ==
  LET N == (n - 1) \div 2 + 1
  IN  [num |-> [i \in 1..n |-> IF i <= N THEN i - 1 ELSE i - 1 - n],
       den |-> n * d]

\* np.fft.fftshift on a 1-d array: roll by n//2
np_fftshift(x) ==
  LET n == Len(x)
      s == n \div 2
  IN  [i \in 1..n |-> x[((i - 1 - s) % n) + 1]]

\* np.diff(c)[0]; the caller has checked that c has two entries
diff0(c) == Rat(c.num[2] - c.num[1], c.den)

(***************************************************************************)
(* The caller's array: dims and shape as xarray keeps them, the spacing of *)
(* each dimension's coordinate, whether the values are complex, and, for a *)
(* signal whose values are followed, the samples (<<>> otherwise).         *)
(***************************************************************************)
HasDim(arr, di) == di \in Range(arr.dims)

\* DataArray.get_axis_num, 1-based
get_axis_num(arr, di) == IndexOf(arr.dims, di)

(***************************************************************************)
(* Axis/dimension resolver (xscale/_utils.py).  An absent name is either   *)
(* dropped from the ordered dimensions by the resolver or handed on to the *)
(* transform loop, which has its own skip: `drops` selects which.          *)
(***************************************************************************)
RECURSIVE SelectSeq2(_, _)
SelectSeq2(s, S) ==
  IF s = <<>> THEN <<>>
  ELSE IF Head(s) \in S THEN <<Head(s)>> \o SelectSeq2(Tail(s), S)
       ELSE SelectSeq2(Tail(s), S)

\* the requested names; an unset dim is the array's first dimension
RequestedNames(arr, dim) ==
  IF dim.kind = "None" THEN <<arr.dims[1]>> ELSE dim.names

\* nfft = 0 stands for None: the dimension's own length
infer_n_and_dims(arr, nfft, dim, drops) ==
  LET req == RequestedNames(arr, dim)
      new_dim == IF drops THEN SelectSeq2(req, Range(arr.dims)) ELSE req
      temp_nfft == [di \in AllDims |->
                      IF ~HasDim(arr, di) THEN 0
                      ELSE IF nfft # 0 THEN nfft
                      ELSE arr.shape[get_axis_num(arr, di)]]
  IN  <<temp_nfft, new_dim>>

\* one entry per requested dimension; 0 stands for None
infer_arg(arg, names) ==
  [di \in AllDims |-> IF di \in Range(names) THEN arg[di] ELSE 0]

\* spacing of the dimension's coordinate
get_dx(arr, di) == arr.spacing[get_axis_num(arr, di)]

(***************************************************************************)
(* _fft: the transform loop                                                *)
(***************************************************************************)
\* da.fft.rfft along an axis of the current length: bins 0 .. len//2
rfft_axis(x) == [i \in 1..(Len(x) \div 2 + 1) |-> i - 1]

\* da.fft.fft along an axis of the current length: bins 0 .. len-1
fft_axis(x) == [i \in 1..Len(x) |-> i - 1]

\* _fftshift with the split point of _ifftshift, p2 = n - (n+1)//2
fftshift_split_low(x) ==
  LET n == Len(x)
      p2 == n - (n + 1) \div 2
      mylist == [i \in 1..n |-> IF i <= n - p2 THEN p2 + i - 1 ELSE i - 1 - (n - p2)]
  IN  [i \in 1..n |-> x[mylist[i] + 1]]

\* _fftshift along one axis: take(x, [p2 .. n-1, 0 .. p2-1]), p2 = (n+1)//2
_fftshift(x) ==
  LET n == Len(x)
      p2 == (n + 1) \div 2
      mylist == [i \in 1..n |-> IF i <= n - p2 THEN p2 + i - 1 ELSE i - 1 - (n - p2)]
  IN  [i \in 1..n |-> x[mylist[i] + 1]]

\* spectrum_dims: 'f_' + di for a dimension in dim, di otherwise
SpectrumDims(arr, dim) ==
  [k \in 1..Len(arr.dims) |->
     [f |-> arr.dims[k] \in Range(dim), name |-> arr.dims[k]]]

FftStart(arr, dx) ==
  [first |-> TRUE, complex |-> arr.complex, fkeys |-> {},
   fcoord |-> [di \in AllDims |-> NoCoord],
   data |-> [k \in 1..Len(arr.dims) |-> [i \in 1..arr.shape[k] |-> i - 1]],
   kinds |-> <<>>, warned |-> <<>>, dx |-> dx]

\* the loop's pass with `first = False` outside the test for the dimension:
\* a skipped name uses up the real transform
FftStepFirstUsedBySkip(arr, nfft, shift, acc, di) ==
  IF HasDim(arr, di)
  THEN LET axis_num == get_axis_num(arr, di)
           dxv == IF acc.dx[di] = 0 THEN get_dx(arr, di) ELSE acc.dx[di]
           real == acc.first /\ ~acc.complex
           coord == IF real THEN rfftfreq(nfft[di], dxv)
                    ELSE IF shift
                         THEN [num |-> np_fftshift(fftfreq(nfft[di], dxv).num),
                               den |-> nfft[di] * dxv]
                         ELSE fftfreq(nfft[di], dxv)
           axis == IF real THEN rfft_axis(acc.data[axis_num])
                   ELSE IF shift THEN _fftshift(fft_axis(acc.data[axis_num]))
                        ELSE fft_axis(acc.data[axis_num])
       IN  [acc EXCEPT !.dx[di] = dxv,
                       !.fkeys = @ \cup {di},
                       !.fcoord[di] = coord,
                       !.data[axis_num] = axis,
                       !.complex = TRUE,
                       !.kinds = Append(@, IF real THEN "rfft" ELSE "fft"),
                       !.first = FALSE]
  ELSE [acc EXCEPT !.kinds = Append(@, "skip"), !.warned = Append(@, di),
                   !.first = FALSE]

\* one pass of the loop `for di in dim`
FftStep(arr, nfft, shift, acc, di) ==
  IF HasDim(arr, di)
  THEN LET axis_num == get_axis_num(arr, di)
           dxv == IF acc.dx[di] = 0 THEN get_dx(arr, di) ELSE acc.dx[di]
           real == acc.first /\ ~acc.complex
           coord == IF real THEN rfftfreq(nfft[di], dxv)
                    ELSE IF shift
                         THEN [num |-> np_fftshift(fftfreq(nfft[di], dxv).num),
                               den |-> nfft[di] * dxv]
                         ELSE fftfreq(nfft[di], dxv)
           axis == IF real THEN rfft_axis(acc.data[axis_num])
                   ELSE IF shift THEN _fftshift(fft_axis(acc.data[axis_num]))
                        ELSE fft_axis(acc.data[axis_num])
       IN  [acc EXCEPT !.dx[di] = dxv,
                       !.fkeys = @ \cup {di},
                       !.fcoord[di] = coord,
                       !.data[axis_num] = axis,
                       !.complex = TRUE,
                       !.kinds = Append(@, IF real THEN "rfft" ELSE "fft"),
                       !.first = FALSE]
  ELSE [acc EXCEPT !.kinds = Append(@, "skip"), !.warned = Append(@, di)]

RECURSIVE FftLoop(_, _, _, _, _)
FftLoop(arr, nfft, shift, acc, dim) ==
  IF dim = <<>> THEN acc
  ELSE FftLoop(arr, nfft, shift, FftStep(arr, nfft, shift, acc, Head(dim)), Tail(dim))

_fft(arr, nfft, dim, dx, shift) ==
  LET acc == FftLoop(arr, nfft, shift, FftStart(arr, dx), dim)
  IN  [acc EXCEPT !.first = FALSE] @@ [dims |-> SpectrumDims(arr, dim)]

\* xr.DataArray(data, coords, dims): a coordinate must be as long as its axis
CoordsFit(f) ==
  \A k \in DOMAIN f.dims :
     f.dims[k].f => Len(f.fcoord[f.dims[k].name].num) = Len(f.data[k])

(***************************************************************************)
(* _compute_norm_factor                                                    *)
(***************************************************************************)
NormStep(s, nfft, tapering, acc, di) ==
  IF acc.status # "ok" THEN acc
  ELSE IF tapering THEN [acc EXCEPT !.status = "NotImplementedError"]
  ELSE IF di \notin s.fkeys THEN [acc EXCEPT !.status = "KeyError"]
  ELSE IF Len(s.fcoord[di].num) < 2 THEN [acc EXCEPT !.status = "IndexError"]
  ELSE LET df == diff0(s.fcoord[di])
           s1 == nfft[di]
           s2 == s1
       IN  [acc EXCEPT !.ps_factor = RDiv(@, <<s1 * s1, 1>>),
                       !.psd_factor = RDiv(@, RMul(df, <<s2, 1>>))]

RECURSIVE NormLoop(_, _, _, _, _)
NormLoop(s, nfft, tapering, acc, dim) ==
  IF dim = <<>> THEN acc
  ELSE NormLoop(s, nfft, tapering, NormStep(s, nfft, tapering, acc, Head(dim)), Tail(dim))

_compute_norm_factor(s, nfft, dim, tapering) ==
  NormLoop(s, nfft, tapering,
           [status |-> "ok", ps_factor |-> <<1, 1>>, psd_factor |-> <<1, 1>>], dim)

(***************************************************************************)
(* Values of the transform of a followed signal.  The DFT is exact for     *)
(* lengths 1, 2 and 4, where the twiddle factors are 1, -i, -1 and i.      *)
(***************************************************************************)
TwiddleRe(n, m) == <<1, 0, -1, 0>>[((m * (4 \div n)) % 4) + 1]
TwiddleIm(n, m) == <<0, -1, 0, 1>>[((m * (4 \div n)) % 4) + 1]

\* bin k of the DFT of the samples x
DFT(x, k) ==
  LET n == Len(x)
  IN  <<SeqSum([j \in 1..n |-> x[j] * TwiddleRe(n, (j - 1) * k)]),
        SeqSum([j \in 1..n |-> x[j] * TwiddleIm(n, (j - 1) * k)])>>

\* array.mean(dim).load() and array - mean_array on a followed signal:
\* the samples n*x[j] - sum(x) over the denominator n
ZeroMean(x) ==
  [vals |-> [j \in 1..Len(x) |-> Len(x) * x[j] - SeqSum(x)], vden |-> Len(x)]

(***************************************************************************)
(* fft                                                                     *)
(***************************************************************************)
\* `detrend is 'zeromean'`: identity with the literal, which holds for the
\* interned string and not for an equal string built at run time
IsLiteral(detrend, lit) == detrend.value = lit /\ detrend.interned

NoSpec ==
  [status |-> "none", meanLoaded |-> FALSE, new_dim |-> <<>>,
   nfft |-> [di \in AllDims |-> 0], kinds |-> <<>>, warned |-> <<>>,
   dims |-> <<>>, fkeys |-> {}, fcoord |-> [di \in AllDims |-> NoCoord],
   data |-> <<>>, complex |-> FALSE,
   ps_factor |-> <<1, 1>>, psd_factor |-> <<1, 1>>, hasFactors |-> FALSE,
   values |-> <<>>, vden |-> 1]

fft(arr, nfft, dim, dx, detrend, tapering, shift, drops) ==
  LET r == infer_n_and_dims(arr, nfft, dim, drops)
      new_dim == r[2]
      new_nfft == infer_arg(r[1], RequestedNames(arr, dim))
      new_dx == infer_arg([di \in AllDims |-> dx], RequestedNames(arr, dim))
      zeromean == IsLiteral(detrend, "zeromean")
      linear == ~zeromean /\ IsLiteral(detrend, "linear")
      start == [NoSpec EXCEPT !.new_dim = new_dim, !.nfft = new_nfft]
      loaded == [start EXCEPT !.meanLoaded = zeromean]
      preproc == IF zeromean /\ arr.values # <<>> THEN ZeroMean(arr.values)
                 ELSE [vals |-> arr.values, vden |-> 1]
      f == _fft(arr, new_nfft, new_dim, new_dx, shift)
      built == [loaded EXCEPT !.kinds = f.kinds, !.warned = f.warned,
                              !.dims = f.dims, !.fkeys = f.fkeys,
                              !.fcoord = f.fcoord, !.data = f.data,
                              !.complex = f.complex,
                              !.vden = preproc.vden,
                              !.values =
                                 IF preproc.vals = <<>> THEN <<>>
                                 ELSE IF f.dims[1].f
                                 THEN [i \in 1..Len(f.data[1]) |->
                                         DFT(preproc.vals, f.data[1][i])]
                                 ELSE [i \in 1..Len(preproc.vals) |->
                                         <<preproc.vals[i], 0>>]]
      norm == _compute_norm_factor(built, new_nfft, new_dim, tapering)
  IN  IF zeromean /\ ~(Range(new_dim) \subseteq Range(arr.dims))
      THEN \* array.mean(dim=new_dim) does not find the dimension
           [start EXCEPT !.status = "ValueError"]
      ELSE IF linear THEN [loaded EXCEPT !.status = "NotImplementedError"]
      ELSE IF tapering THEN [loaded EXCEPT !.status = "NotImplementedError"]
      ELSE IF ~CoordsFit(f) THEN [built EXCEPT !.status = "ValueError"]
      ELSE IF norm.status # "ok" THEN [built EXCEPT !.status = norm.status]
      ELSE [built EXCEPT !.status = "ok", !.hasFactors = TRUE,
                         !.ps_factor = norm.ps_factor,
                         !.psd_factor = norm.psd_factor]

(***************************************************************************)
(* ps and psd                                                              *)
(***************************************************************************)
NoPower == [status |-> "none", name |-> "", values |-> <<>>]

\* (spec * conj(spec)).real * factor
SquaredModulus(s, factor) ==
  [i \in 1..Len(s.values) |->
     RMul(Rat(s.values[i][1] * s.values[i][1] + s.values[i][2] * s.values[i][2],
              s.vden * s.vden),
          factor)]

ps(s) ==
  IF s.status # "ok" THEN [NoPower EXCEPT !.status = s.status]
  ELSE [status |-> "ok", name |-> "PS", values |-> SquaredModulus(s, s.ps_factor)]

psd(s) ==
  IF s.status # "ok" THEN [NoPower EXCEPT !.status = s.status]
  ELSE [status |-> "ok", name |-> "PSD", values |-> SquaredModulus(s, s.psd_factor)]

(***************************************************************************)
(* sinfit                                                                  *)
(***************************************************************************)
Reverse(s) == [i \in 1..Len(s) |-> s[Len(s) + 1 - i]]

RECURSIVE InsertDesc(_, _)
InsertDesc(e, s) ==
  IF s = <<>> THEN <<e>>
  ELSE IF e > Head(s) THEN <<e>> \o s
       ELSE <<Head(s)>> \o InsertDesc(e, Tail(s))

\* list.sort(reverse=True)
RECURSIVE SortDesc(_)
SortDesc(s) ==
  IF s = <<>> THEN <<>>
  ELSE InsertDesc(s[Len(s)], SortDesc(SubSeq(s, 1, Len(s) - 1)))

\* seconds in one unit of pd.to_timedelta
UnitSeconds(unit) == IF unit = "h" THEN 3600 ELSE 1

\* the columns of x with the cosines in the order of the frequencies
DesignMatrixCosinesInOrder(freqs) ==
  [i \in 1..Len(freqs) |-> [fn |-> "cos", f |-> freqs[i]]]
  \o <<[fn |-> "ones", f |-> <<0, 1>>]>>
  \o [i \in 1..Len(freqs) |-> [fn |-> "sin", f |-> freqs[i]]]

\* the columns of x: cosines of the reversed frequencies, ones, sines
DesignMatrix(freqs) ==
  [i \in 1..Len(freqs) |-> [fn |-> "cos", f |-> Reverse(freqs)[i]]]
  \o <<[fn |-> "ones", f |-> <<0, 1>>]>>
  \o [i \in 1..Len(freqs) |-> [fn |-> "sin", f |-> freqs[i]]]

\* _order_and_stack: the work dimension first, then the other dimensions
\* (stacked into temp_dim when there are more than two)
_order_and_stack(arr, dim) ==
  LET dims_stacked == SelectSeq2(arr.dims, Range(arr.dims) \ {dim})
  IN  IF Len(arr.dims) > 2 THEN <<dim, "temp_dim">>
      ELSE IF Len(arr.dims) = 2 THEN <<dim>> \o dims_stacked
      ELSE arr.dims

NoModes ==
  [status |-> "none", periods |-> <<>>, unit |-> "", columns |-> <<>>,
   b |-> <<>>, a |-> <<>>, offset |-> 0,
   amplitude |-> <<>>, phase |-> <<>>,
   amplitudeDims |-> <<>>, offsetDims |-> <<>>]

\* plist is the list the function works on: the caller's own list, or the
\* one-element list built around a scalar.  c[i] stands for the coefficient
\* that lstsq returns for column i of x.
sinfit(arr, plist, dim, datetime, unit) ==
  LET d == IF dim = "None" THEN arr.dims[1] ELSE dim
      n == 2 * Len(plist) + 1
      sorted == SortDesc(plist)
      stackedDims == _order_and_stack(arr, d)
      freqs == [p \in 1..Len(sorted) |-> Rat(1, sorted[p] * UnitSeconds(unit))]
      x == DesignMatrix(freqs)
      c == [i \in 1..n |-> i]
      b == Reverse(SubSeq(c, 1, n \div 2))
      a == SubSeq(c, n \div 2 + 2, n)
  IN  IF ~datetime
      THEN \* freqs = 1. / periods divides a float by a list
           [NoModes EXCEPT !.status = "TypeError"]
      ELSE [status |-> "ok", periods |-> sorted, unit |-> unit, columns |-> x,
            b |-> b, a |-> a, offset |-> c[n \div 2 + 1],
            amplitude |-> [p \in 1..Len(a) |-> <<a[p], b[p]>>],
            phase |-> [p \in 1..Len(a) |-> [y |-> b[p], x |-> a[p]]],
            amplitudeDims |-> <<"periods">> \o Tail(stackedDims),
            offsetDims |-> Tail(stackedDims)]

(***************************************************************************)
(* The caller.  array and periods are objects the caller owns; call is the *)
(* last call and its arguments; spec, power and modes are what the call    *)
(* produced.  fft, ps and psd are functions of their arguments alone, so   *)
(* a behaviour follows one such call on the caller's array; sinfit works   *)
(* on the caller's list, and a behaviour follows any number of its calls.  *)
(***************************************************************************)
NoCall ==
  [op |-> "none", nfft |-> 0, dim |-> [kind |-> "None", names |-> <<>>],
   dx |-> 0, detrend |-> [value |-> "None", interned |-> TRUE],
   tapering |-> FALSE, shift |-> FALSE, drops |-> FALSE,
   scalar |-> FALSE, datetime |-> FALSE, unit |-> "s", passed |-> <<>>]

Layouts ==
  {[dims |-> <<"x">>, shape |-> <<n>>, spacing |-> <<1>>, complex |-> c,
    values |-> <<>>] : n \in 1..MaxLen, c \in BOOLEAN}
  \cup
  {[dims |-> <<"x", "y">>, shape |-> <<n, m>>, spacing |-> <<1, 2>>,
    complex |-> c, values |-> <<>>] : n \in 1..MaxLen, m \in 1..MaxLen, c \in BOOLEAN}

Signals ==
  UNION {{[dims |-> <<"x">>, shape |-> <<n>>, spacing |-> <<1>>,
           complex |-> FALSE, values |-> v] :
            v \in [1..n -> (-MaxSample)..MaxSample]} : n \in {2, 4}}

InjectiveSeqs(S, maxLen) ==
  UNION {{q \in [1..k -> S] : \A i, j \in 1..k : i # j => q[i] # q[j]} :
           k \in 1..maxLen}

DimArgs ==
  {[kind |-> "None", names |-> <<>>]}
  \cup {[kind |-> "str", names |-> <<di>>] : di \in AllDims}
  \cup {[kind |-> "list", names |-> q] : q \in InjectiveSeqs(AllDims, 3)}

DetrendArgs ==
  {[value |-> "None", interned |-> TRUE]}
  \cup {[value |-> v, interned |-> i] : v \in {"zeromean", "linear"}, i \in BOOLEAN}

PeriodLists == UNION {[1..k -> 1..MaxPeriod] : k \in 1..3}

CallFft(nfft, dim, dx, detrend, tapering, shift, drops) ==
  /\ call.op = "none"
  /\ call' = [NoCall EXCEPT !.op = "fft", !.nfft = nfft, !.dim = dim, !.dx = dx,
                            !.detrend = detrend, !.tapering = tapering,
                            !.shift = shift, !.drops = drops]
  /\ spec' = fft(array, nfft, dim, dx, detrend, tapering, shift, drops)
  /\ power' = NoPower
  /\ modes' = NoModes
  /\ UNCHANGED <<array, periods>>

CallPs(nfft, dim, dx, detrend, tapering, shift) ==
  /\ call.op = "none"
  /\ call' = [NoCall EXCEPT !.op = "ps", !.nfft = nfft, !.dim = dim, !.dx = dx,
                            !.detrend = detrend, !.tapering = tapering,
                            !.shift = shift]
  /\ spec' = fft(array, nfft, dim, dx, detrend, tapering, shift, FALSE)
  /\ power' = ps(spec')
  /\ modes' = NoModes
  /\ UNCHANGED <<array, periods>>

CallPsd(nfft, dim, dx, detrend, tapering, shift) ==
  /\ call.op = "none"
  /\ call' = [NoCall EXCEPT !.op = "psd", !.nfft = nfft, !.dim = dim, !.dx = dx,
                            !.detrend = detrend, !.tapering = tapering,
                            !.shift = shift]
  /\ spec' = fft(array, nfft, dim, dx, detrend, tapering, shift, FALSE)
  /\ power' = psd(spec')
  /\ modes' = NoModes
  /\ UNCHANGED <<array, periods>>

\* a scalar argument is the first entry of the caller's list, passed by value;
\* a list argument is the caller's list itself, which periods.sort works on
CallSinfit(scalar, dim, datetime, unit) ==
  LET plist == IF scalar THEN <<periods[1]>> ELSE periods
  IN  /\ call' = [NoCall EXCEPT !.op = "sinfit", !.scalar = scalar,
                                !.dim = IF dim = "None" THEN NoCall.dim
                                        ELSE [kind |-> "str", names |-> <<dim>>],
                                !.datetime = datetime, !.unit = unit,
                                !.passed = periods]
      /\ modes' = sinfit(array, plist, dim, datetime, unit)
      /\ periods' = IF scalar THEN periods ELSE SortDesc(periods)
      /\ spec' = NoSpec
      /\ power' = NoPower
      /\ UNCHANGED array

\* the caller puts another list of periods together
NewPeriods(p) ==
  /\ periods' = p
  /\ call' = NoCall
  /\ modes' = NoModes
  /\ UNCHANGED <<array, spec, power>>

InitFft ==
  /\ array \in Layouts
  /\ periods = <<1>>
  /\ call = NoCall
  /\ spec = NoSpec
  /\ power = NoPower
  /\ modes = NoModes

\* fft called once, with any arguments
Fft ==
  /\ call.op = "none"
  /\ \E nfft \in {0, 4}, dim \in DimArgs, dx \in {0, 2}, detrend \in DetrendArgs,
        tapering \in BOOLEAN, shift \in BOOLEAN, drops \in BOOLEAN :
          CallFft(nfft, dim, dx, detrend, tapering, shift, drops)

NextFft == Fft

SpecFft == InitFft /\ [][NextFft]_vars

InitPsd ==
  /\ array \in Signals
  /\ periods = <<1>>
  /\ call = NoCall
  /\ spec = NoSpec
  /\ power = NoPower
  /\ modes = NoModes

SignalDims == {[kind |-> "None", names |-> <<>>], [kind |-> "str", names |-> <<"x">>]}

SignalDetrend(zeromean) ==
  [value |-> IF zeromean THEN "zeromean" ELSE "None", interned |-> TRUE]

\* ps called once on the signal
Ps ==
  /\ call.op = "none"
  /\ \E dim \in SignalDims, dx \in {0, 2}, zeromean \in BOOLEAN,
        tapering \in BOOLEAN, shift \in BOOLEAN :
          CallPs(0, dim, dx, SignalDetrend(zeromean), tapering, shift)

\* psd called once on the signal
Psd ==
  /\ call.op = "none"
  /\ \E dim \in SignalDims, dx \in {0, 2}, zeromean \in BOOLEAN,
        tapering \in BOOLEAN, shift \in BOOLEAN :
          CallPsd(0, dim, dx, SignalDetrend(zeromean), tapering, shift)

NextPsd == Ps \/ Psd

SpecPsd == InitPsd /\ [][NextPsd]_vars

InitFit ==
  /\ array \in {a \in Layouts : ~a.complex /\ \A k \in DOMAIN a.shape : a.shape[k] = MaxLen}
  /\ periods \in PeriodLists
  /\ call = NoCall
  /\ spec = NoSpec
  /\ power = NoPower
  /\ modes = NoModes

Sinfit ==
  \E scalar \in BOOLEAN, dim \in {"None", "x"}, datetime \in BOOLEAN,
     unit \in {"s", "h"} : CallSinfit(scalar, dim, datetime, unit)

Caller == \E p \in PeriodLists : NewPeriods(p)

NextFit == Sinfit \/ Caller

SpecFit == InitFit /\ [][NextFit]_vars

(***************************************************************************)
(* Properties of fft, checked under SpecFft                                *)
(***************************************************************************)
\* the names the caller asked for, in the caller's order
Requested == RequestedNames(array, call.dim)

\* _fft has run in the last call
Transformed == call.op = "fft" /\ spec.dims # <<>>

\* how the last call treated a requested name
KindOf(di) ==
  IF di \in Range(spec.new_dim) THEN spec.kinds[IndexOf(spec.new_dim, di)]
  ELSE "skip"

\* positions of the requested names that are dimensions of the array
PresentAt == {j \in DOMAIN Requested : HasDim(array, Requested[j])}

\* no option of the call is one of the unimplemented ones, and every
\* transformed axis has the two frequency bins that np.diff(...)[0] needs
PlainCall ==
  /\ call.op = "fft"
  /\ call.detrend.value = "None"
  /\ ~call.tapering
  /\ call.nfft = 0
  /\ \A k \in DOMAIN array.shape : array.shape[k] >= 2

\* C1: detrend='linear' or tapering=True always ends in the not-supported
\* error, and nothing has been computed by then: no mean has been loaded and
\* no transform has been run.  (Stated for a detrend given as the literal.)
C1_UnsupportedFailsBeforeAnyComputation ==
  (call.op = "fft" /\ call.detrend.interned
     /\ (call.detrend.value = "linear" \/ call.tapering))
    => /\ spec.status = "NotImplementedError"
       /\ ~spec.meanLoaded
       /\ spec.dims = <<>>

C3_RealFftOnFirstRequested ==
  Transformed =>
    \A j \in PresentAt :
       KindOf(Requested[j]) = IF j = 1 /\ ~array.complex THEN "rfft" ELSE "fft"

\* C3 as amended: on real input the real FFT is used on the first requested
\* dimension that is a dimension of the array and the complex FFT on every
\* later one; on complex input the complex FFT is used everywhere; a
\* requested name that is no dimension of the array is not transformed.  So
\* at most one dimension per call is transformed with the real FFT.
C3_RealFftOnFirstPresent ==
  Transformed =>
    /\ \A j \in PresentAt :
         KindOf(Requested[j]) =
           IF ~array.complex /\ (\A i \in PresentAt : j <= i) THEN "rfft" ELSE "fft"
    /\ \A j \in DOMAIN Requested \ PresentAt : KindOf(Requested[j]) = "skip"
    /\ Cardinality({i \in DOMAIN spec.kinds : spec.kinds[i] = "rfft"}) <= 1

\* C3 witness: a real array, an absent name requested first, then the real
\* and the complex transform
C3_Witness ==
  /\ Transformed
  /\ ~array.complex
  /\ ~call.drops
  /\ spec.kinds = <<"skip", "rfft", "fft">>

\* the rotation [ceil(n/2), ..., n-1, 0, ..., ceil(n/2)-1] of a sequence
Rotation(x) ==
  LET n == Len(x)
  IN  [i \in 1..n |-> x[(((n + 1) \div 2 + i - 1) % n) + 1]]

\* the axis of the result that belongs to a dimension of the array
AxisOf(di) == spec.data[get_axis_num(array, di)]

\* the requested dimensions that the last call transformed
TransformedDims == {di \in Range(spec.new_dim) : KindOf(di) # "skip"}

\* C4 as stated: with shift=true, on every transformed axis of even length n
\* the zero frequency is at index n/2 of the axis's frequency coordinate,
\* the first requested dimension of a real input included.
C4_ShiftCentersZeroOnEveryAxis ==
  (Transformed /\ call.shift) =>
    \A di \in TransformedDims :
       LET n == array.shape[get_axis_num(array, di)]
           c == spec.fcoord[di].num
       IN  n % 2 = 0 => (n \div 2 + 1 \in DOMAIN c /\ c[n \div 2 + 1] = 0)

\* C4 as amended: with shift=true, on every axis transformed with the
\* complex FFT the frequency coordinate, of length n, is fftfreq rotated by
\* [ceil(n/2), ..., n-1, 0, ..., ceil(n/2)-1], so that zero frequency is at
\* index n/2 when n is even, and the data axis is rotated by the same rule
\* for its own length, bin for bin like the coordinate when the two lengths
\* agree.  The axis transformed with the real FFT (the first transformed
\* dimension of a real input) is not rotated: zero frequency stays at
\* index 0 of its coordinate and bin 0 at index 0 of its data.
C4_ShiftCentersZeroOnComplexAxes ==
  (Transformed /\ call.shift) =>
    \A di \in TransformedDims :
       LET c == spec.fcoord[di].num
           n == Len(c)
           x == AxisOf(di)
       IN  IF KindOf(di) = "fft"
           THEN /\ c = Rotation(fftfreq(n, 1).num)
                /\ n % 2 = 0 => c[n \div 2 + 1] = 0
                /\ x = Rotation([i \in 1..Len(x) |-> i - 1])
                /\ Len(x) = n => \A i \in 1..n : (c[i] - x[i]) % n = 0
           ELSE /\ c[1] = 0
                /\ x = [i \in 1..Len(x) |-> i - 1]

\* C4 witness: shift=true on a real two-dimensional array: one axis with the
\* real FFT, one even-length axis with the complex FFT, its zero frequency
\* rotated to the middle
C4_Witness ==
  /\ Transformed
  /\ call.shift
  /\ spec.status = "ok"
  /\ spec.kinds = <<"rfft", "fft">>
  /\ \E di \in TransformedDims :
        /\ KindOf(di) = "fft"
        /\ Len(spec.fcoord[di].num) = 4
        /\ spec.fcoord[di].num = <<-2, -1, 0, 1>>
        /\ AxisOf(di) = <<2, 3, 0, 1>>

\* C5: on real input the result's axis of the first transformed dimension
\* has length nfft//2 + 1, and every transformed dimension's frequency
\* coordinate is as long as the result's data along that axis, for the
\* default nfft and for an explicit one.
C5_CoordinateAsLongAsData ==
  Transformed =>
    \A di \in TransformedDims :
       /\ Len(spec.fcoord[di].num) = Len(AxisOf(di))
       /\ KindOf(di) = "rfft" => Len(AxisOf(di)) = spec.nfft[di] \div 2 + 1

\* the orderings of the requested names
Orderings(names) ==
  {q \in [1..Len(names) -> Range(names)] : Range(q) = Range(names)}

RECURSIVE RProduct(_)
RProduct(s) == IF s = <<>> THEN <<1, 1>> ELSE RMul(Head(s), RProduct(Tail(s)))

\* C6: after fft returns, ps_factor is the product over the transformed
\* dimensions of 1/nfft^2 and psd_factor the product of 1/(df*nfft), df the
\* spacing between consecutive output frequency bins, and both are the same
\* for every ordering of the requested dimensions.
C6_NormFactorsOrderIndependent ==
  (call.op = "fft" /\ spec.status = "ok") =>
    /\ spec.ps_factor =
         RProduct([i \in 1..Len(spec.new_dim) |->
                     Rat(1, spec.nfft[spec.new_dim[i]] * spec.nfft[spec.new_dim[i]])])
    /\ spec.psd_factor =
         RProduct([i \in 1..Len(spec.new_dim) |->
                     RDiv(<<1, 1>>,
                          RMul(diff0(spec.fcoord[spec.new_dim[i]]),
                               <<spec.nfft[spec.new_dim[i]], 1>>))])
    /\ call.dim.kind = "list" =>
         \A q \in Orderings(call.dim.names) :
            LET other == fft(array, call.nfft, [kind |-> "list", names |-> q],
                             call.dx, call.detrend, call.tapering, call.shift,
                             call.drops)
            IN  /\ other.status = "ok"
                /\ other.ps_factor = spec.ps_factor
                /\ other.psd_factor = spec.psd_factor

(***************************************************************************)
(* Parseval consistency of psd, checked under SpecPsd                      *)
(***************************************************************************)
\* mean of the squared samples
Variance(x) == Rat(SeqSum([j \in 1..Len(x) |-> x[j] * x[j]]), Len(x))

\* C7: for a zero-mean real signal along one dimension, the sum over the
\* output frequency bins of the power spectral density times the bin spacing
\* df equals the variance of the signal.
C7_ParsevalConsistency ==
  (call.op = "psd" /\ power.status = "ok" /\ spec.dims[1].f
     /\ SeqSum(array.values) = 0)
    => RSum([i \in 1..Len(power.values) |->
               RMul(power.values[i], diff0(spec.fcoord["x"]))])
       = Variance(array.values)

(***************************************************************************)
(* Properties of sinfit, checked under SpecFit                             *)
(***************************************************************************)
\* the number of periods the caller passed
PassedCount == IF call.scalar THEN 1 ELSE Len(call.passed)

\* C8: called with k >= 1 periods (a scalar counts as one), sinfit returns
\* k amplitudes and k phases along the periods axis and one offset without a
\* periods axis, with a datetime coordinate and with a plain numeric one,
\* and does not end in an error.
C8_OneModePerPeriod ==
  call.op = "sinfit" =>
    /\ modes.status = "ok"
    /\ Len(modes.amplitude) = PassedCount
    /\ Len(modes.phase) = PassedCount
    /\ Head(modes.amplitudeDims) = "periods"
    /\ "periods" \notin Range(modes.offsetDims)

\* C9: the call leaves the caller's inputs as they were: the list of periods
\* has the same elements in the same order after the call as before it.
C9_CallerPeriodsUnchanged ==
  call.op = "sinfit" => periods = call.passed

\* the frequency that belongs to entry p of the periods coordinate
FrequencyOf(p) == Rat(1, modes.periods[p] * UnitSeconds(modes.unit))

====
